---- MODULE Spec2Model ----
(***************************************************************************)
(* A model of esbot's world index and searches (src/Map.py): class Map     *)
(* with addChunk, findChunk, __getitem__, __setitem__, searchForBlock and  *)
(* findPath.                                                                *)
(*                                                                         *)
(* Encoding of numbers.  Positions handed to the public methods are Python *)
(* numbers that need not be whole (a player stands at x.5).  Such a number *)
(* v is represented by the integer 2*v ("half units"), so every value here *)
(* is a multiple of 0.5.  Block coordinates produced by ifloor, and Points *)
(* built from them, are plain integers.  Squared distances to an unfloored *)
(* goal are kept in quarter units (the square of a half-unit length).      *)
(***************************************************************************)
EXTENDS Integers, Sequences, FiniteSets, TLC

VARIABLES
    chunks,           \* Map.chunks: chunk origin (key) -> chunk
    scan,             \* the keys of Map.chunks in the dict's iteration order
    BLOCKS_WALKABLE,  \* the module-level set of constants.py, a mutable set
    op,               \* the last world-index call and its outcome
    call,             \* parameters of the running (or last) search call
    pc,               \* position of the search: "idle", "loop", "done"
    visited,          \* the search's visited set
    q,                \* searchForBlock's deque
    pq,               \* findPath's heap (a heapq list)
    backTrack,        \* findPath's back-pointers: position -> node
    found,            \* findPath's terminal node, a set of at most one node
    result,           \* outcome of the finished call
    last              \* what the caller keeps of its previous findPath call

vars == <<chunks, scan, BLOCKS_WALKABLE, op, call, pc, visited, q, pq,
          backTrack, found, result, last>>

(***************************************************************************)
(* Block identifiers and classification sets (constants.py).               *)
(***************************************************************************)
BLOCK_AIR == 0
BLOCK_STONE == 1
BLOCK_BEDROCK == 7
BLOCK_WATER == 8
BLOCK_SPRING == 9
BLOCK_LAVA == 10
BLOCK_LAVASPRING == 11
BLOCK_SAND == 12
BLOCK_GRAVEL == 13
BLOCK_TORCH == 50
BLOCK_FENCE == 85

\* BLOCKS_WALKABLE as constants.py builds it when the program starts.
WalkableAtStartup == {BLOCK_AIR, BLOCK_TORCH}

BLOCKS_BREAKABLE == {BLOCK_STONE, BLOCK_SAND, BLOCK_GRAVEL}

\* The outcome "raise BlockNotLoadedError" of __getitem__ / __setitem__.
BlockNotLoadedError == -1

\* Python's None for an optional numeric parameter.
None == -1

(***************************************************************************)
(* Utility.py: ifloor and Point.                                           *)
(***************************************************************************)
\* ifloor(v) = int(math.floor(v)) of a number given in half units.
ifloor(h) == h \div 2

\* A Python int as a number in half units.
FromInt(i) == 2 * i

\* Point(*map(ifloor, position))
FloorPoint(position) ==
    <<ifloor(position[1]), ifloor(position[2]), ifloor(position[3])>>

\* A Point of block coordinates as a position in half units.
AsPosition(p) == <<FromInt(p[1]), FromInt(p[2]), FromInt(p[3])>>

\* Point.__add__ on block coordinates.
Add(p, d) == <<p[1] + d[1], p[2] + d[2], p[3] + d[3]>>

\* The square of Point.mag() for a half-unit vector, in quarter units.
Mag2(v) == v[1] * v[1] + v[2] * v[2] + v[3] * v[3]

\* Map.adjX, adjY, adjZ zipped: the six neighbour offsets in loop order.
adj == << <<0, 0, -1>>, <<-1, 0, 0>>, <<0, -1, 0>>,
          <<1, 0, 0>>, <<0, 1, 0>>, <<0, 0, 1>> >>

(***************************************************************************)
(* Chunk: an origin, extents and one block identifier per local cell.  The *)
(* cells are kept as a fill value plus the cells that differ from it.      *)
(***************************************************************************)
MkChunk(pos, sx, sy, sz, fill, cells) ==
    [pos |-> pos, sizeX |-> sx, sizeY |-> sy, sizeZ |-> sz,
     fill |-> fill, cells |-> cells]

\* chunk[x, y, z]
ChunkGet(chunk, l) ==
    IF l \in DOMAIN chunk.cells THEN chunk.cells[l] ELSE chunk.fill

\* chunk[x, y, z] = value
ChunkSet(chunk, l, value) ==
    [chunk EXCEPT !.cells =
        [k \in DOMAIN chunk.cells \cup {l} |->
            IF k = l THEN value ELSE chunk.cells[k]]]

NoCells == [k \in {} |-> 0]

(***************************************************************************)
(* World index                                                             *)
(***************************************************************************)
\* The width of the assumed horizontal chunk alignment.
ChunkAlign == 16

\* The world ceiling of __getitem__.
WorldTop == 128

\* The world floor of __getitem__.
WorldFloor == 0

\* cx<=x<cx+chunk.sizeX and cy<=y<cy+chunk.sizeY and cz<=z<cz+chunk.sizeZ
Inside(cpos, chunk, x, y, z) ==
    /\ cpos[1] <= x /\ x < cpos[1] + chunk.sizeX
    /\ cpos[2] <= y /\ y < cpos[2] + chunk.sizeY
    /\ cpos[3] <= z /\ z < cpos[3] + chunk.sizeZ

\* The key the aligned fast path looks up.
AlignedKey(x, z) == <<x - (x % ChunkAlign), 0, z - (z % ChunkAlign)>>

\* self.chunks[tuple(chunk.pos)] = chunk
AddChunkTo(cs, chunk) ==
    [k \in DOMAIN cs \cup {chunk.pos} |-> IF k = chunk.pos THEN chunk ELSE cs[k]]

\* The orders in which a dict with the keys S may iterate.
Orders(S) ==
    {f \in [1 .. Cardinality(S) -> S] : \A i, j \in DOMAIN f : f[i] = f[j] => i = j}

\* for chunkPos, chunk in self.chunks.items(): the first key, in iteration
\* order, whose chunk contains (x, y, z); {} when the loop falls through.
ScanFor(cs, x, y, z) ==
    LET at == {i \in DOMAIN scan : Inside(scan[i], cs[scan[i]], x, y, z)}
    IN  IF at = {} THEN {}
        ELSE {scan[CHOOSE i \in at : \A j \in at : i <= j]}

\* findChunkIn with the aligned lookup trusted without the extents test.
findChunkIn_NoExtentCheck(cs, position) ==
    LET x == ifloor(position[1])
        y == ifloor(position[2])
        z == ifloor(position[3])
        chunkPos == AlignedKey(x, z)
    IN  IF chunkPos \in DOMAIN cs
        THEN {chunkPos}
        ELSE ScanFor(cs, x, y, z)

\* findChunkIn without the scan of all chunks.
findChunkIn_AlignedOnly(cs, position) ==
    LET x == ifloor(position[1])
        y == ifloor(position[2])
        z == ifloor(position[3])
        chunkPos == AlignedKey(x, z)
    IN  IF chunkPos \in DOMAIN cs /\ Inside(chunkPos, cs[chunkPos], x, y, z)
        THEN {chunkPos}
        ELSE {}

\* findChunk(position) on the mapping cs, whose keys iterate in the order
\* scan: the key of the chunk returned, as a set; {} stands for None.
findChunkIn(cs, position) ==
    LET x == ifloor(position[1])
        y == ifloor(position[2])
        z == ifloor(position[3])
        chunkPos == AlignedKey(x, z)
    IN  IF chunkPos \in DOMAIN cs /\ Inside(chunkPos, cs[chunkPos], x, y, z)
        THEN {chunkPos}
        ELSE ScanFor(cs, x, y, z)

findChunk(position) == findChunkIn(chunks, position)

\* getitemIn with the ceiling test off by one (y > 128).
getitemIn_StrictTop(cs, key) ==
    LET x == ifloor(key[1])
        y == ifloor(key[2])
        z == ifloor(key[3])
        hit == findChunkIn(cs, <<FromInt(x), FromInt(y), FromInt(z)>>)
    IN  IF y > WorldTop THEN {BLOCK_AIR}
        ELSE IF y <= WorldFloor THEN {BLOCK_BEDROCK}
        ELSE IF hit # {}
             THEN {ChunkGet(cs[k], <<x - cs[k].pos[1], y - cs[k].pos[2],
                                     z - cs[k].pos[3]>>) : k \in hit}
             ELSE {BlockNotLoadedError}

\* __getitem__(key) on the mapping cs: the outcome of the call, as a set of
\* one element, a block identifier or BlockNotLoadedError.
getitemIn(cs, key) ==
    LET x == ifloor(key[1])
        y == ifloor(key[2])
        z == ifloor(key[3])
        hit == findChunkIn(cs, <<FromInt(x), FromInt(y), FromInt(z)>>)
    IN  IF y >= WorldTop THEN {BLOCK_AIR}
        ELSE IF y <= WorldFloor THEN {BLOCK_BEDROCK}
        ELSE IF hit # {}
             THEN {ChunkGet(cs[k], <<x - cs[k].pos[1], y - cs[k].pos[2],
                                     z - cs[k].pos[3]>>) : k \in hit}
             ELSE {BlockNotLoadedError}

getitem(key) == getitemIn(chunks, key)

\* setitemIn with the world coordinates used as the chunk's local ones.
setitemIn_NotTranslated(cs, key, value, k) ==
    LET x == ifloor(key[1])
        y == ifloor(key[2])
        z == ifloor(key[3])
    IN  [cs EXCEPT ![k] = ChunkSet(cs[k], <<x, y, z>>, value)]

\* __setitem__(key, value) on cs, findChunk having returned chunk k.
setitemIn(cs, key, value, k) ==
    LET x == ifloor(key[1])
        y == ifloor(key[2])
        z == ifloor(key[3])
    IN  [cs EXCEPT ![k] = ChunkSet(cs[k], <<x - cs[k].pos[1], y - cs[k].pos[2],
                                            z - cs[k].pos[3]>>, value)]

(***************************************************************************)
(* Values shared by the specifications: the state of a Map right after     *)
(* Map.__init__ and of a search that has not been called.                  *)
(***************************************************************************)
NoChunks == [k \in {} |-> 0]

NoOp == [name |-> "none", key |-> <<0, 0, 0>>, value |-> 0, ret |-> 0,
         chunk |-> {}]

NoCall == [name |-> "none"]

\* The outcome of a search call: how it ended ("none" while it runs, "return"
\* or the exception raised), the position searchForBlock returned, the path
\* findPath returned (no path: <<>>), and the flag returned with it.
Outcome(kind, value, path, available) ==
    [kind |-> kind, value |-> value, path |-> path, available |-> available]

NoResult == Outcome("none", {}, <<>>, FALSE)

NoBackTrack == [p \in {} |-> 0]

\* The caller has no earlier findPath call to compare with.
NoLast == [call |-> NoCall, result |-> NoResult]

SearchIdle ==
    /\ call = NoCall
    /\ pc = "idle"
    /\ visited = {}
    /\ q = <<>>
    /\ pq = <<>>
    /\ backTrack = NoBackTrack
    /\ found = {}
    /\ result = NoResult
    /\ last = NoLast

searchVars == <<call, pc, visited, q, pq, backTrack, found, result, last>>

\* A finished call returns or raises: its locals are gone.
Unwind ==
    /\ pc = "done"
    /\ call' = NoCall
    /\ pc' = "idle"
    /\ visited' = {}
    /\ q' = <<>>
    /\ pq' = <<>>
    /\ backTrack' = NoBackTrack
    /\ found' = {}
    /\ result' = NoResult

\* The finished call hands its outcome to the caller.
CallReturns ==
    /\ Unwind
    /\ UNCHANGED <<chunks, scan, BLOCKS_WALKABLE, op, last>>

(***************************************************************************)
(* SpecIndex: the world index under addChunk, findChunk, get and set.      *)
(***************************************************************************)
\* How many cells __setitem__ may have written in the chunks of the index.
MaxSets == 1

\* How many chunks the network layer has loaded at a time.
MaxChunks == 2

\* Chunks the network layer may hand to addChunk.
ChunkPool ==
    { MkChunk(<<0, 0, 0>>, 16, 128, 16, BLOCK_AIR, NoCells),
      MkChunk(<<0, 0, 0>>, 4, 4, 4, BLOCK_STONE, NoCells),
      MkChunk(<<-16, 0, 0>>, 16, 128, 16, BLOCK_TORCH, NoCells),
      MkChunk(<<20, 60, 20>>, 2, 2, 2, BLOCK_STONE, NoCells),
      MkChunk(<<19, 59, 19>>, 4, 4, 4, BLOCK_FENCE, NoCells),
      MkChunk(<<0, -2, 16>>, 16, 132, 16, BLOCK_SAND, NoCells) }

\* Positions (half units) handed to findChunk, get and set.
IndexKeys ==
    { <<10, 120, 10>>, <<40, 120, 40>>, <<42, 122, 43>>,
      <<38, 118, 38>>, <<10, 256, 10>>, <<10, 0, 10>>, <<10, 1, 10>>,
      <<10, 2, 10>>, <<10, 255, 10>>, <<6, -2, 40>>, <<6, 258, 40>>,
      <<6, 10, 40>>, <<-1, 120, 10>> }

SetKeys == { <<10, 120, 10>>, <<42, 122, 43>>, <<6, 258, 40>>, <<-1, 120, 10>> }

SetValues == {BLOCK_TORCH}

CellsWritten(cs) ==
    Cardinality({<<k, l>> \in UNION {{k} \X DOMAIN cs[k].cells : k \in DOMAIN cs} : TRUE})

InitIndex ==
    /\ chunks = NoChunks
    /\ scan = <<>>
    /\ BLOCKS_WALKABLE = WalkableAtStartup
    /\ op = NoOp
    /\ SearchIdle

addChunk(chunk) ==
    /\ Cardinality(DOMAIN AddChunkTo(chunks, chunk)) <= MaxChunks
    /\ chunks' = AddChunkTo(chunks, chunk)
    /\ IF chunk.pos \in DOMAIN chunks
       THEN scan' = scan
       ELSE scan' \in Orders(DOMAIN chunks \cup {chunk.pos})
    /\ op' = [name |-> "addChunk", key |-> chunk.pos, value |-> 0, ret |-> 0,
              chunk |-> {chunk.pos}]
    /\ UNCHANGED <<BLOCKS_WALKABLE, searchVars>>

FindChunk(position) ==
    /\ \E r \in (IF findChunk(position) = {} THEN {{}}
                 ELSE {{k} : k \in findChunk(position)}) :
          op' = [name |-> "findChunk", key |-> position, value |-> 0, ret |-> 0,
                 chunk |-> r]
    /\ UNCHANGED <<chunks, scan, BLOCKS_WALKABLE, searchVars>>

GetItem(key) ==
    /\ \E r \in getitem(key) :
          op' = [name |-> "get", key |-> key, value |-> 0, ret |-> r,
                 chunk |-> {}]
    /\ UNCHANGED <<chunks, scan, BLOCKS_WALKABLE, searchVars>>

SetItem(key, value) ==
    LET hit == findChunk(AsPosition(FloorPoint(key)))
    IN  /\ IF hit = {}
           THEN /\ op' = [name |-> "set", key |-> key, value |-> value,
                          ret |-> BlockNotLoadedError, chunk |-> {}]
                /\ UNCHANGED chunks
           ELSE \E k \in hit :
                /\ CellsWritten(setitemIn(chunks, key, value, k)) <= MaxSets
                /\ chunks' = setitemIn(chunks, key, value, k)
                /\ op' = [name |-> "set", key |-> key, value |-> value,
                          ret |-> 0, chunk |-> {k}]
        /\ UNCHANGED <<scan, BLOCKS_WALKABLE, searchVars>>

NextIndex ==
    \/ \E chunk \in ChunkPool : addChunk(chunk)
    \/ \E position \in IndexKeys : FindChunk(position)
    \/ \E key \in IndexKeys : GetItem(key)
    \/ \E key \in SetKeys, value \in SetValues : SetItem(key, value)

SpecIndex == InitIndex /\ [][NextIndex]_vars

(***************************************************************************)
(* Claims about the world index.                                           *)
(***************************************************************************)
\* The loaded chunks whose extents contain block (x, y, z), and what they
\* store there.
Covering(cs, p) ==
    {k \in DOMAIN cs :
        /\ cs[k].pos[1] <= p[1] /\ p[1] - cs[k].pos[1] < cs[k].sizeX
        /\ cs[k].pos[2] <= p[2] /\ p[2] - cs[k].pos[2] < cs[k].sizeY
        /\ cs[k].pos[3] <= p[3] /\ p[3] - cs[k].pos[3] < cs[k].sizeZ}

Stored(cs, k, p) ==
    ChunkGet(cs[k], <<p[1] - cs[k].pos[1], p[2] - cs[k].pos[2], p[3] - cs[k].pos[3]>>)

\* C8: whatever chunks are loaded, get at a position with y >= 128 returns
\* the air sentinel and get at a position with y <= 0 returns the bedrock
\* sentinel, never BlockNotLoadedError and never the stored cell.
C8_Sentinels ==
    op.name = "get" =>
        /\ ifloor(op.key[2]) >= 128 => op.ret = BLOCK_AIR
        /\ ifloor(op.key[2]) <= 0 => op.ret = BLOCK_BEDROCK

\* A get above the ceiling at a position where a loaded chunk stores a block
\* that is not air.
C8_Witness ==
    /\ op.name = "get"
    /\ ifloor(op.key[2]) >= 128
    /\ \E k \in Covering(chunks, FloorPoint(op.key)) :
          Stored(chunks, k, FloorPoint(op.key)) # BLOCK_AIR

\* What C9 says of the outcome of a get at 0 < y < 128: the cell a loaded
\* chunk containing the position stores, or BlockNotLoadedError when no
\* loaded chunk contains it.
C9_GetHolds ==
    LET p == FloorPoint(op.key)
        single == /\ DOMAIN chunks = {<<0, 0, 0>>}
                  /\ chunks[<<0, 0, 0>>].sizeX = 16
                  /\ chunks[<<0, 0, 0>>].sizeY = 128
                  /\ chunks[<<0, 0, 0>>].sizeZ = 16
    IN  (op.name = "get" /\ 0 < p[2] /\ p[2] < 128) =>
          /\ Covering(chunks, p) # {} =>
                \E k \in Covering(chunks, p) : op.ret = Stored(chunks, k, p)
          /\ Covering(chunks, p) = {} => op.ret = BlockNotLoadedError
          /\ (single /\ op.key = <<10, 120, 10>>) => op.ret # BlockNotLoadedError
          /\ (single /\ op.key = <<40, 120, 40>>) => op.ret = BlockNotLoadedError

\* C9: for 0 < y < 128 get returns the cell a loaded chunk containing the
\* position stores, and raises BlockNotLoadedError when no loaded chunk
\* contains it; the index is left as it was.  With the single 16x128x16
\* chunk at the origin get((5,60,5)) succeeds and get((20,60,20)) raises.
C9_GetResolves == [][op'.name = "get" => (chunks' = chunks /\ C9_GetHolds')]_vars

\* A get that resolves through the fallback scan, and reads a written cell.
C9_Witness ==
    /\ op.name = "get"
    /\ op.key = <<42, 122, 43>>
    /\ op.ret = BLOCK_TORCH
    /\ Covering(chunks, FloorPoint(op.key)) # {}

\* C17: whatever chunks are loaded, aligned or not, findChunk returns none
\* exactly when no loaded chunk's extents contain the floored position, and
\* a chunk it returns contains the floored position.
C17_FindChunkExact ==
    op.name = "findChunk" =>
        /\ op.chunk = {} <=> Covering(chunks, FloorPoint(op.key)) = {}
        /\ op.chunk \subseteq Covering(chunks, FloorPoint(op.key))

\* findChunk has returned a chunk that the aligned lookup did not give.
C17_Witness ==
    /\ op.name = "findChunk"
    /\ op.chunk # {}
    /\ op.chunk # {AlignedKey(FloorPoint(op.key)[1], FloorPoint(op.key)[3])}

\* The block positions of the keys handed to the index.
IndexBlocks == {FloorPoint(key) : key \in IndexKeys}

\* C18: a set at a position p with 0 < y < 128 that a loaded chunk covers
\* succeeds, after it get(p) returns the value set and get(q) is as before
\* for every other position q; a set at a position no loaded chunk contains
\* raises BlockNotLoadedError and changes no cell and no mapping entry.
C18_SetThenGet ==
    [][op'.name = "set" =>
         \A key \in {op'.key}, value \in {op'.value} :
            IF Covering(chunks, FloorPoint(key)) = {}
            THEN op'.ret = BlockNotLoadedError /\ chunks' = chunks /\ scan' = scan
            ELSE (0 < FloorPoint(key)[2] /\ FloorPoint(key)[2] < 128) =>
                   /\ op'.ret = 0
                   /\ getitem(key)' = {value}
                   /\ \A b \in IndexBlocks \ {FloorPoint(key)} :
                         getitem(AsPosition(b))' = getitem(AsPosition(b))
                   /\ DOMAIN chunks' = DOMAIN chunks /\ scan' = scan]_vars

\* A set has written a cell that two loaded chunks cover, and get reads the
\* value back.
C18_Witness ==
    /\ op.name = "set"
    /\ op.ret = 0
    /\ Cardinality(Covering(chunks, FloorPoint(op.key))) >= 2
    /\ getitem(op.key) = {op.value}

(***************************************************************************)
(* searchForBlock (src/Map.py lines 69-95)                                 *)
(***************************************************************************)
\* Read with a position no chunk covers read as air.
Read_UnloadedAsAir(key) ==
    IF getitem(key) = {BlockNotLoadedError} THEN BLOCK_AIR
    ELSE CHOOSE r \in getitem(key) : TRUE

\* self[key]: the block identifier returned, or BlockNotLoadedError.
Read(key) == CHOOSE r \in getitem(key) : TRUE

\* if maxDist is not None and npos.mag() > maxDist
BeyondMaxDist(npos, maxDist) ==
    maxDist # None /\ Mag2(AsPosition(npos)) > maxDist * maxDist

\* The for loop over the six neighbours of pos, from neighbour i on, with the
\* visited set vis and the deque qq; hit is the position returned, if any.
RECURSIVE SearchNeighbours(_, _, _, _, _)
SearchNeighbours(c, pos, i, vis, qq) ==
    IF i > Len(adj) THEN [hit |-> {}, visited |-> vis, q |-> qq]
    ELSE LET npos == Add(pos, adj[i])
         IN  IF BeyondMaxDist(npos, c.maxDist)
             THEN SearchNeighbours(c, pos, i + 1, vis, qq)
             ELSE IF npos \in vis
             THEN SearchNeighbours(c, pos, i + 1, vis, qq)
             ELSE IF Read(AsPosition(npos)) = c.targetBlock
             THEN [hit |-> {npos}, visited |-> vis, q |-> qq]
             ELSE IF Read(AsPosition(npos)) = BlockNotLoadedError
             THEN SearchNeighbours(c, pos, i + 1, vis, qq)
             ELSE SearchNeighbours(c, pos, i + 1, vis \cup {npos},
                                   Append(qq, npos))

\* How many positions a search may have visited before its wall-clock budget
\* runs out in the model.
MaxVisited == 12

\* SearchBegin with the source left out of the visited set.
SearchBegin_SourceNotSeeded(source, targetBlock, maxDist) ==
    /\ pc = "idle"
    /\ call' = [name |-> "searchForBlock", source |-> source,
                src |-> FloorPoint(source), targetBlock |-> targetBlock,
                maxDist |-> maxDist]
    /\ visited' = {}
    /\ q' = <<FloorPoint(source)>>
    /\ result' = NoResult
    /\ pc' = "loop"
    /\ UNCHANGED <<chunks, scan, BLOCKS_WALKABLE, op, last, pq, backTrack, found>>

\* searchForBlock is called: lines 70-76.
SearchBegin(source, targetBlock, maxDist) ==
    /\ pc = "idle"
    /\ call' = [name |-> "searchForBlock", source |-> source,
                src |-> FloorPoint(source), targetBlock |-> targetBlock,
                maxDist |-> maxDist]
    /\ visited' = {FloorPoint(source)}
    /\ q' = <<FloorPoint(source)>>
    /\ result' = NoResult
    /\ pc' = "loop"
    /\ UNCHANGED <<chunks, scan, BLOCKS_WALKABLE, op, last, pq, backTrack, found>>

\* One iteration of the while loop within the time budget: lines 78-93.
SearchStep ==
    /\ pc = "loop"
    /\ call.name = "searchForBlock"
    /\ q # <<>>
    /\ LET r == SearchNeighbours(call, Head(q), 1, visited, Tail(q))
       IN  /\ Cardinality(r.visited) <= MaxVisited
           /\ visited' = r.visited
           /\ q' = r.q
           /\ IF r.hit # {}
              THEN /\ result' = Outcome("return", r.hit, <<>>, FALSE)
                   /\ pc' = "done"
              ELSE UNCHANGED <<result, pc>>
    /\ UNCHANGED <<chunks, scan, BLOCKS_WALKABLE, op, last, call, pq, backTrack, found>>

\* The budget is exceeded when a position is popped: lines 78-81.
SearchTimeout ==
    /\ pc = "loop"
    /\ call.name = "searchForBlock"
    /\ q # <<>>
    /\ q' = Tail(q)
    /\ result' = Outcome("TimeoutError", {}, <<>>, FALSE)
    /\ pc' = "done"
    /\ UNCHANGED <<chunks, scan, BLOCKS_WALKABLE, op, last, call, visited, pq, backTrack, found>>

\* The deque is empty: line 95, return None.
SearchExhausted ==
    /\ pc = "loop"
    /\ call.name = "searchForBlock"
    /\ q = <<>>
    /\ result' = Outcome("return", {}, <<>>, FALSE)
    /\ pc' = "done"
    /\ UNCHANGED <<chunks, scan, BLOCKS_WALKABLE, op, last, call, visited, q, pq, backTrack, found>>

(***************************************************************************)
(* SpecSearch: searchForBlock in worlds of one straight corridor of air,   *)
(* some of whose cells hold the target block.                              *)
(***************************************************************************)
CorridorLen == 6

MaxTargets == 2

\* The heights of the corridor: on the world floor, in between, and right
\* under the world ceiling.
CorridorHeights == {1, 5, 127}

CorridorCells(T) == [l \in {<<x, 0, 0>> : x \in T} |-> BLOCK_STONE]

SearchWorlds ==
    { AddChunkTo(NoChunks,
                 MkChunk(<<0, h, 0>>, CorridorLen, 1, 1, BLOCK_AIR, CorridorCells(T))) :
        h \in CorridorHeights,
        T \in {S \in SUBSET (0 .. CorridorLen - 1) : Cardinality(S) <= MaxTargets} }

\* Sources (half units): the corridor's first, third and fifth cell, the
\* third one given off-grid.
SearchSources(h) == { <<0, 2 * h, 0>>, <<5, 2 * h + 1, 1>>, <<8, 2 * h, 0>> }

\* maxDist (half units): none, 1.5 and 5.5.
SearchMaxDists == {None, 3, 11}

InitSearch ==
    /\ chunks \in SearchWorlds
    /\ scan \in Orders(DOMAIN chunks)
    /\ BLOCKS_WALKABLE = WalkableAtStartup
    /\ op = NoOp
    /\ SearchIdle

NextSearch ==
    \/ \E h \in CorridorHeights, maxDist \in SearchMaxDists :
          \E source \in SearchSources(h) :
             /\ <<0, h, 0>> \in DOMAIN chunks
             /\ SearchBegin(source, BLOCK_STONE, maxDist)
    \/ SearchStep
    \/ SearchTimeout
    \/ SearchExhausted
    \/ CallReturns

SpecSearch == InitSearch /\ [][NextSearch]_vars

(***************************************************************************)
(* findPath (src/Map.py lines 97-234)                                      *)
(***************************************************************************)
\* forClient, a set of at most one agent profile: {} is None.
NoClient == {}

\* AStarNode.dist is sqrt(d2)/2 + pen/2 blocks: d2 is the squared distance to
\* the goal in quarter units, pen the break penalty in half units.
\* a.dist < b.dist, decided exactly in integers.
DistLess(a, b) ==
    LET k == b.pen - a.pen
        L == a.d2 - b.d2 - k * k
        R == b.d2 - a.d2 - k * k
    IN  IF k >= 0
        THEN L < 0 \/ L * L < 4 * k * k * b.d2
        ELSE ~(R <= 0 \/ R * R <= 4 * k * k * a.d2)

\* AStarNode.__cmp__(a, b) == 0: what == and != between nodes compare.
NodeEq(a, b) == ~DistLess(a, b) /\ ~DistLess(b, a)

\* node.dist <= threshold
DistWithin(n, threshold) ==
    /\ threshold - n.pen >= 0
    /\ n.d2 <= (threshold - n.pen) * (threshold - n.pen)

\* The penalty added to dist in AStarNode.__init__ (lines 134-143).
BreakPenalty(c, blockId) ==
    IF c.destructive /\ blockId \in BLOCKS_BREAKABLE
    THEN IF c.blockBreakPenalty # None THEN c.blockBreakPenalty
         ELSE IF c.forClient # NoClient
              THEN LET fc == CHOOSE f \in c.forClient : TRUE
                   IN  fc.speed * (fc.targetTick * 3)
              ELSE 0
    ELSE 0

\* AStarNode(pos)
AStarNode(c, pos) ==
    LET r == Read(AsPosition(pos))
        blockId == IF r = BlockNotLoadedError THEN None ELSE r
        e == AsPosition(pos)
    IN  [pos |-> pos,
         d2 |-> Mag2(<<c.end[1] - e[1], c.end[2] - e[2], c.end[3] - e[3]>>),
         pen |-> BreakPenalty(c, blockId),
         blockId |-> blockId,
         available |-> r # BlockNotLoadedError]

\* heapq._siftdown(heap, 0, pos) for newitem, positions counted from 0.
RECURSIVE SiftDown(_, _, _)
SiftDown(heap, pos, newitem) ==
    IF pos > 0 /\ DistLess(newitem, heap[((pos - 1) \div 2) + 1])
    THEN SiftDown([heap EXCEPT ![pos + 1] = heap[((pos - 1) \div 2) + 1]],
                  (pos - 1) \div 2, newitem)
    ELSE [heap EXCEPT ![pos + 1] = newitem]

\* heapq.heappush(heap, item)
heappush(heap, item) == SiftDown(Append(heap, item), Len(heap), item)

\* heapq._siftup(heap, pos): bubble the smaller child up to a leaf, then sift
\* newitem down from there.
RECURSIVE SiftUp(_, _, _)
SiftUp(heap, pos, newitem) ==
    LET childpos == 2 * pos + 1
        rightpos == childpos + 1
        pick == IF rightpos < Len(heap)
                   /\ ~DistLess(heap[childpos + 1], heap[rightpos + 1])
                THEN rightpos ELSE childpos
    IN  IF childpos < Len(heap)
        THEN SiftUp([heap EXCEPT ![pos + 1] = heap[pick + 1]], pick, newitem)
        ELSE SiftDown([heap EXCEPT ![pos + 1] = newitem], pos, newitem)

\* heapq.heappop(heap): the item returned and the heap left.
heappop(heap) ==
    LET lastelt == heap[Len(heap)]
        rest == SubSeq(heap, 1, Len(heap) - 1)
    IN  IF rest # <<>>
        THEN [item |-> heap[1],
              heap |-> SiftUp([rest EXCEPT ![1] = lastelt], 0, lastelt)]
        ELSE [item |-> lastelt, heap |-> rest]

\* The blocks two above a candidate that forbid breaking into it.
FallHazards == {BLOCK_GRAVEL, BLOCK_SAND, BLOCK_WATER, BLOCK_SPRING,
                BLOCK_LAVA, BLOCK_LAVASPRING}

\* Skipped without the test of the visited set.
Skipped_VisitedIgnored(c, newNode, vis, walkableBlocks) ==
    LET above == Read(AsPosition(Add(newNode.pos, <<0, 1, 0>>)))
        below == Read(AsPosition(Add(newNode.pos, <<0, -1, 0>>)))
        above2 == Read(AsPosition(Add(newNode.pos, <<0, 2, 0>>)))
    IN  \/ ~newNode.available /\ ~c.acceptIncomplete
        \/ newNode.available /\ newNode.blockId \notin walkableBlocks
        \/ above # BlockNotLoadedError /\ above \notin walkableBlocks
        \/ below = BLOCK_FENCE
        \/ c.destructive /\ above2 \in FallHazards

\* The tests of lines 176-209 on a candidate node: TRUE when it is skipped.
Skipped(c, newNode, vis, walkableBlocks) ==
    LET above == Read(AsPosition(Add(newNode.pos, <<0, 1, 0>>)))
        below == Read(AsPosition(Add(newNode.pos, <<0, -1, 0>>)))
        above2 == Read(AsPosition(Add(newNode.pos, <<0, 2, 0>>)))
    IN  \/ newNode.pos \in vis
        \/ ~newNode.available /\ ~c.acceptIncomplete
        \/ newNode.available /\ newNode.blockId \notin walkableBlocks
        \/ above # BlockNotLoadedError /\ above \notin walkableBlocks
        \/ below = BLOCK_FENCE
        \/ c.destructive /\ above2 \in FallHazards

\* The for loop over the six neighbours of node, from neighbour i on.
RECURSIVE PathNeighbours(_, _, _, _, _, _, _)
PathNeighbours(c, node, i, vis, heap, bt, walkableBlocks) ==
    IF i > Len(adj) THEN [visited |-> vis, pq |-> heap, backTrack |-> bt]
    ELSE LET newNode == AStarNode(c, Add(node.pos, adj[i]))
         IN  IF Skipped(c, newNode, vis, walkableBlocks)
             THEN PathNeighbours(c, node, i + 1, vis, heap, bt, walkableBlocks)
             ELSE PathNeighbours(c, node, i + 1, vis \cup {newNode.pos},
                     heappush(heap, newNode),
                     [k \in DOMAIN bt \cup {newNode.pos} |->
                         IF k = newNode.pos THEN node ELSE bt[k]],
                     walkableBlocks)

\* if node.pos == endPos or ((not node.available) and acceptIncomplete) or
\*    (threshold is not None and node.dist <= threshold)
Terminal(c, node) ==
    \/ node.pos = c.endPos
    \/ ~node.available /\ c.acceptIncomplete
    \/ c.threshold # None /\ DistWithin(node, c.threshold)

\* cur.pos + (0.5, 0, 0.5), in half units.
Waypoint(pos) == <<2 * pos[1] + 1, 2 * pos[2], 2 * pos[3] + 1>>

\* while cur != startNode: the walk stops at a node that compares equal.
AtStart(cur, startNode) == NodeEq(cur, startNode)

\* Lines 218-223: the waypoints from cur back along the back-pointers.
RECURSIVE WalkBack(_, _, _)
WalkBack(cur, startNode, bt) ==
    IF AtStart(cur, startNode) THEN <<Waypoint(cur.pos)>>
    ELSE <<Waypoint(cur.pos)>> \o WalkBack(bt[cur.pos], startNode, bt)

\* Reverse with the path left in goal-to-start order.
Reverse_Forgotten(seq) == seq

\* path.reverse()
Reverse(seq) == [i \in 1 .. Len(seq) |-> seq[Len(seq) + 1 - i]]

\* Flag with the flag returned as true whatever the terminal node is.
Flag_AlwaysTrue(c, node) == c.acceptIncomplete

\* The flag returned with a path (lines 226-229): found.available when
\* acceptIncomplete is set; no flag otherwise (kept as FALSE).
Flag(c, node) == c.acceptIncomplete /\ node.available

\* walkableBlocks |= BLOCKS_BREAKABLE on the set BLOCKS_WALKABLE names.
WalkableAfter(walkable, destructive) ==
    IF destructive THEN walkable \cup BLOCKS_BREAKABLE ELSE walkable

\* Preconditions with the start tested before line 105 has updated the set.
Preconditions_StartTestedFirst(c, walkableBlocks, walkable) ==
    LET atEnd == Read(c.end)
        aboveEnd == Read(<<c.end[1], c.end[2] + FromInt(1), c.end[3]>>)
        goal == IF atEnd = BlockNotLoadedError
                THEN (IF c.acceptIncomplete THEN "ok" ELSE "BlockNotLoadedError")
                ELSE IF atEnd \notin walkableBlocks THEN "AssertionError"
                ELSE IF aboveEnd = BlockNotLoadedError
                THEN (IF c.acceptIncomplete THEN "ok" ELSE "BlockNotLoadedError")
                ELSE IF aboveEnd \notin walkableBlocks THEN "AssertionError"
                ELSE "ok"
    IN  IF Read(c.start) = BlockNotLoadedError THEN "BlockNotLoadedError"
        ELSE IF Read(c.start) \notin BLOCKS_WALKABLE THEN "AssertionError"
        ELSE goal

\* Preconditions with the goal's BlockNotLoadedError raised although
\* acceptIncomplete is set.
Preconditions_AlwaysRaise(c, walkableBlocks, walkable) ==
    LET atEnd == Read(c.end)
        aboveEnd == Read(<<c.end[1], c.end[2] + FromInt(1), c.end[3]>>)
        goal == IF atEnd = BlockNotLoadedError THEN "BlockNotLoadedError"
                ELSE IF atEnd \notin walkableBlocks THEN "AssertionError"
                ELSE IF aboveEnd = BlockNotLoadedError THEN "BlockNotLoadedError"
                ELSE IF aboveEnd \notin walkableBlocks THEN "AssertionError"
                ELSE "ok"
    IN  IF goal # "ok" THEN goal
        ELSE IF Read(c.start) = BlockNotLoadedError THEN "BlockNotLoadedError"
        ELSE IF Read(c.start) \notin walkable THEN "AssertionError"
        ELSE "ok"

\* Lines 109-114: "ok" or the exception the precondition checks raise.
Preconditions(c, walkableBlocks, walkable) ==
    LET atEnd == Read(c.end)
        aboveEnd == Read(<<c.end[1], c.end[2] + FromInt(1), c.end[3]>>)
        goal == IF atEnd = BlockNotLoadedError
                THEN (IF c.acceptIncomplete THEN "ok" ELSE "BlockNotLoadedError")
                ELSE IF atEnd \notin walkableBlocks THEN "AssertionError"
                ELSE IF aboveEnd = BlockNotLoadedError
                THEN (IF c.acceptIncomplete THEN "ok" ELSE "BlockNotLoadedError")
                ELSE IF aboveEnd \notin walkableBlocks THEN "AssertionError"
                ELSE "ok"
    IN  IF goal # "ok" THEN goal
        ELSE IF Read(c.start) = BlockNotLoadedError THEN "BlockNotLoadedError"
        ELSE IF Read(c.start) \notin walkable THEN "AssertionError"
        ELSE "ok"

\* findPath is called: lines 103-160.
FindPathBegin(start, end, acceptIncomplete, threshold, destructive, blockBreakPenalty, forClient) ==
    LET walkableBlocks == WalkableAfter(BLOCKS_WALKABLE, destructive)
        c0 == [name |-> "findPath", start |-> start, end |-> end,
               acceptIncomplete |-> acceptIncomplete, threshold |-> threshold,
               destructive |-> destructive,
               blockBreakPenalty |-> blockBreakPenalty, forClient |-> forClient,
               endPos |-> FloorPoint(end)]
        startNode == AStarNode(c0, FloorPoint(start))
        pre == Preconditions(c0, walkableBlocks, walkableBlocks)
    IN  /\ pc = "idle"
        /\ BLOCKS_WALKABLE' = walkableBlocks
        /\ q' = <<>>
        /\ backTrack' = NoBackTrack
        /\ found' = {}
        /\ IF pre = "ok"
           THEN /\ call' = c0 @@ [startNode |-> startNode]
                /\ visited' = {startNode.pos}
                /\ pq' = heappush(<<>>, startNode)
                /\ result' = NoResult
                /\ pc' = "loop"
           ELSE /\ call' = c0 @@ [startNode |-> startNode]
                /\ visited' = {}
                /\ pq' = <<>>
                /\ result' = Outcome(pre, {}, <<>>, FALSE)
                /\ pc' = "done"
        /\ UNCHANGED <<chunks, scan, op, last>>

\* One iteration of the while loop within the time budget: lines 165-213.
FindPathStep ==
    /\ pc = "loop"
    /\ call.name = "findPath"
    /\ pq # <<>>
    /\ found = {}
    /\ LET popped == heappop(pq)
           node == popped.item
           r == PathNeighbours(call, node, 1, visited, popped.heap, backTrack,
                               BLOCKS_WALKABLE)
       IN  IF Terminal(call, node)
           THEN /\ found' = {node}
                /\ pq' = popped.heap
                /\ UNCHANGED <<visited, backTrack>>
           ELSE /\ visited' = r.visited
                /\ pq' = r.pq
                /\ backTrack' = r.backTrack
                /\ UNCHANGED found
    /\ UNCHANGED <<chunks, scan, BLOCKS_WALKABLE, op, last, call, pc, q, result>>

\* The 10 second budget is exceeded at the top of an iteration: lines 162-163.
FindPathTimeout ==
    /\ pc = "loop"
    /\ call.name = "findPath"
    /\ pq # <<>>
    /\ found = {}
    /\ result' = Outcome("TimeoutError", {}, <<>>, FALSE)
    /\ pc' = "done"
    /\ UNCHANGED <<chunks, scan, BLOCKS_WALKABLE, op, last, call, visited, q, pq, backTrack, found>>

\* The loop has ended: lines 215-234.
FindPathReturn ==
    /\ pc = "loop"
    /\ call.name = "findPath"
    /\ pq = <<>> \/ found # {}
    /\ IF found # {}
       THEN LET node == CHOOSE n \in found : TRUE
            IN  result' = Outcome("return", {},
                              Reverse(WalkBack(node, call.startNode, backTrack)),
                              Flag(call, node))
       ELSE result' = Outcome("return", {}, <<>>, FALSE)
    /\ pc' = "done"
    /\ UNCHANGED <<chunks, scan, BLOCKS_WALKABLE, op, last, call, visited, q, pq, backTrack, found>>

(***************************************************************************)
(* SpecPath: findPath, called again and again, in worlds of one slab of    *)
(* air three blocks high with at most one other block in it.               *)
(***************************************************************************)
LenX == 4

LenZ == 2

SlabHeight == 3

ObstacleBlocks == {BLOCK_STONE, BLOCK_FENCE, BLOCK_GRAVEL}

PathWorlds ==
    { AddChunkTo(NoChunks, MkChunk(<<0, 0, 0>>, LenX, SlabHeight, LenZ, BLOCK_AIR, NoCells)) }
    \cup
    { AddChunkTo(NoChunks,
                 MkChunk(<<0, 0, 0>>, LenX, SlabHeight, LenZ, BLOCK_AIR,
                         [l \in {<<x, y, z>>} |-> b])) :
        x \in 0 .. LenX - 1, y \in 1 .. SlabHeight - 1, z \in 0 .. LenZ - 1,
        b \in ObstacleBlocks }

\* start (half units): block (0,1,0), (1.5, 1, 0.5) in block (1,1,0), and
\* block (0,0,0) on the world floor.
PathStarts == { <<0, 2, 0>>, <<3, 2, 1>>, <<0, 0, 0>> }

\* end (half units): block (3,1,0), a block two past the slab's far side at
\* y = 2, which no chunk covers and whose six neighbours none covers,
\* block (3,0,0) on the world floor, and block (3,2,0), which the slab covers
\* when the block above it is covered by no chunk.
PathEnds == { <<6, 2, 0>>, <<2 * (LenX + 1), 4, 0>>, <<6, 0, 0>>, <<6, 4, 0>> }

\* threshold (half units): none and 2.5.
PathThresholds == {None, 5}

\* blockBreakPenalty (half units) and forClient: neither, a penalty of one
\* block, an agent profile.
PathPenalties ==
    { <<None, NoClient>>, <<2, NoClient>>,
      <<None, {[speed |-> 1, targetTick |-> 1]}>> }

InitPath ==
    /\ chunks \in PathWorlds
    /\ scan \in Orders(DOMAIN chunks)
    /\ BLOCKS_WALKABLE = WalkableAtStartup
    /\ op = NoOp
    /\ SearchIdle

NextPath ==
    \/ \E start \in PathStarts, end \in PathEnds, acceptIncomplete \in BOOLEAN,
          threshold \in PathThresholds, destructive \in BOOLEAN,
          pen \in PathPenalties :
             FindPathBegin(start, end, acceptIncomplete, threshold, destructive,
                           pen[1], pen[2])
    \/ FindPathStep
    \/ FindPathTimeout
    \/ FindPathReturn
    \/ CallReturns

SpecPath == InitPath /\ [][NextPath]_vars

(***************************************************************************)
(* Claims about searchForBlock.                                            *)
(***************************************************************************)
Searching == call.name = "searchForBlock"

\* The square of the distance between two block positions, in quarter units.
Dist2(a, b) == 4 * ((a[1] - b[1]) * (a[1] - b[1]) + (a[2] - b[2]) * (a[2] - b[2])
                    + (a[3] - b[3]) * (a[3] - b[3]))

WithinOfSource(p) == Dist2(p, call.src) <= call.maxDist * call.maxDist

Range(f) == {f[i] : i \in DOMAIN f}

Neighbours(p) == {Add(p, adj[i]) : i \in DOMAIN adj}

\* The positions around the corridor: every cell of the region and the
\* positions next to it.
Around ==
    UNION {{<<x, y, z>> : x \in (k[1] - 1) .. (k[1] + chunks[k].sizeX),
                          y \in (k[2] - 1) .. (k[2] + chunks[k].sizeY),
                          z \in (k[3] - 1) .. (k[3] + chunks[k].sizeZ)} :
           k \in DOMAIN chunks}

Readable(p) == getitem(AsPosition(p)) # {BlockNotLoadedError}

HoldsTarget(p) == getitem(AsPosition(p)) = {call.targetBlock}

\* B and the readable positions one 6-connected step from a position of B
\* that is the source or does not hold the target.
OneMoreStep(B) ==
    B \cup {p \in Around : Readable(p) /\
               \E b \in B : /\ p \in Neighbours(b)
                            /\ (b = call.src \/ ~HoldsTarget(b))}

\* The number of steps, beyond the n that lead to B, after which p is reached.
RECURSIVE StepsFrom(_, _, _)
StepsFrom(p, B, n) ==
    IF p \in B THEN n
    ELSE IF OneMoreStep(B) = B THEN Cardinality(Around) + 1
    ELSE StepsFrom(p, OneMoreStep(B), n + 1)

\* The step distance of p from the source along readable cells that do not
\* hold the target; Cardinality(Around) + 1 when there is no such route.
StepDist(p) == StepsFrom(p, {call.src}, 0)

\* C5: with maxDist given the cutoff is measured from the floored source: no
\* position farther than maxDist from it is enqueued, marked visited or
\* returned, and when the search runs dry every readable neighbour, not the
\* target, within maxDist of the source has been explored.
C5_CutoffFromSource ==
    (Searching /\ call.maxDist # None) =>
        /\ \A p \in (visited \cup Range(q) \cup result.value) \ {call.src} :
              WithinOfSource(p)
        /\ (pc = "done" /\ result.kind = "return" /\ result.value = {}) =>
              \A p \in visited : \A n \in Neighbours(p) :
                  (WithinOfSource(n) /\ Readable(n) /\ ~HoldsTarget(n))
                      => n \in visited

\* C6: the position returned holds the target, no other position holding the
\* target is strictly fewer steps from the source, and every position
\* dequeued before the return is fewer steps from the source than it.
C6_NearestTarget ==
    (Searching /\ pc = "done" /\ result.kind = "return" /\ result.value # {}) =>
        \A r \in result.value :
            /\ HoldsTarget(r)
            /\ \A t \in Around : (HoldsTarget(t) /\ t # r) => StepDist(t) >= StepDist(r)
            /\ \A d \in visited \ Range(q) : StepDist(d) <= StepDist(r) - 1

\* C7: with maxDist given and no target within maxDist of the source, a
\* search that ends within its time budget ends with "not found".
C7_NotFound ==
    (/\ Searching /\ pc = "done" /\ call.maxDist # None
     /\ result.kind # "TimeoutError"
     /\ \A p \in Around : WithinOfSource(p) => ~HoldsTarget(p))
        => result.value = {}

\* The positions the search has enqueued, marked visited or returned, the
\* source excepted.
Explored == (visited \cup Range(q) \cup result.value) \ {call.src}

\* C15 as stated: every position enqueued, marked visited or returned, the
\* source excepted, is covered by a loaded chunk, at every height.
C15_EnqueuedCovered ==
    Searching => \A p \in Explored : Covering(chunks, p) # {}

\* C15 amended: every position enqueued, marked visited or returned, the
\* source excepted, is one get reads without failing: a loaded chunk covers
\* it, or it lies at y >= 128 or y <= 0, where get answers with a sentinel
\* whatever is loaded.  A neighbour at 0 < y < 128 that no loaded chunk
\* covers is never enqueued, marked visited or returned.
C15_EnqueuedReadable ==
    Searching =>
        \A p \in Explored :
            /\ getitem(AsPosition(p)) # {BlockNotLoadedError}
            /\ Covering(chunks, p) # {} \/ p[2] >= WorldTop \/ p[2] <= WorldFloor

\* The search has enqueued a position above the world ceiling that no chunk
\* covers, next to a position in between that no chunk covers and that it
\* has left out.
C15_Witness ==
    /\ Searching
    /\ \E p \in Explored :
          /\ p[2] >= WorldTop /\ Covering(chunks, p) = {}
          /\ \E n \in Neighbours(Add(p, <<0, -1, 0>>)) :
                /\ n[2] < WorldTop /\ Covering(chunks, n) = {}
                /\ n \notin Explored

\* C20: searchForBlock never returns the floored source, also when the block
\* at the source is the target: the search then ends with another position,
\* with "not found" or with a timeout.
C20_SourceNotReturned ==
    (Searching /\ pc = "done") =>
        /\ call.src \notin result.value
        /\ HoldsTarget(call.src) =>
              \/ result.kind = "TimeoutError"
              \/ result.kind = "return" /\ result.value = {}
              \/ result.kind = "return" /\ \E r \in result.value : r # call.src

\* The source holds the target and the search has returned another position.
C20_Witness ==
    /\ Searching /\ pc = "done"
    /\ HoldsTarget(call.src)
    /\ result.kind = "return"
    /\ \E r \in result.value : r # call.src /\ HoldsTarget(r)

(***************************************************************************)
(* Claims about findPath.                                                  *)
(***************************************************************************)
PathCall == call.name = "findPath"

PathDone == PathCall /\ pc = "done"

\* findPath returned a path (not None, not an exception).
PathReturned == PathDone /\ result.kind = "return" /\ result.path # <<>>

\* The waypoint is the centre of the block it lies in.
BlockOf(w) == <<ifloor(w[1]), ifloor(w[2]), ifloor(w[3])>>

Last(seq) == seq[Len(seq)]

\* Two waypoints one block apart along exactly one axis.
OneStep(a, b) ==
    LET dx == a[1] - b[1]
        dy == a[2] - b[2]
        dz == a[3] - b[3]
    IN  dx * dx + dy * dy + dz * dz = 4

\* Every cell of every chunk holds air.
AllAir == \A k \in DOMAIN chunks : chunks[k].fill = BLOCK_AIR /\ chunks[k].cells = NoCells

\* C1: a returned path starts at the block centre of the floored start, ends
\* at the block centre of the terminal node, and moves one block at a time;
\* the walk back never stops before the start node.
C1_WalkReachesStart ==
    PathReturned =>
        /\ result.path[1] = <<2 * ifloor(call.start[1]) + 1, 2 * ifloor(call.start[2]),
                              2 * ifloor(call.start[3]) + 1>>
        /\ \A n \in found : Last(result.path) = <<2 * n.pos[1] + 1, 2 * n.pos[2],
                                                  2 * n.pos[3] + 1>>
        /\ \A i \in 1 .. (Len(result.path) - 1) :
              OneStep(result.path[i], result.path[i + 1])

\* C2 as stated: in an all-air region findPath from (0,0,0) to (3,0,0)
\* returns the four block centres (0.5,0,0.5) .. (3.5,0,0.5).
C2_AtFloorLevel ==
    (PathDone /\ AllAir /\ call.start = <<0, 0, 0>> /\ call.end = <<6, 0, 0>>) =>
        /\ result.kind = "return"
        /\ result.path = << <<1, 0, 1>>, <<3, 0, 1>>, <<5, 0, 1>>, <<7, 0, 1>> >>

\* C2 amended: in an all-air region findPath without threshold from (0,1,0)
\* to (3,1,0), one block above the world floor, returns within its time
\* budget exactly the four block centres (0.5,1,0.5) .. (3.5,1,0.5).
C2_DirectRoute ==
    (PathDone /\ AllAir /\ call.start = <<0, 2, 0>> /\ call.end = <<6, 2, 0>>
     /\ call.threshold = None /\ result.kind # "TimeoutError") =>
        /\ result.kind = "return"
        /\ result.path = << <<1, 2, 1>>, <<3, 2, 1>>, <<5, 2, 1>>, <<7, 2, 1>> >>

\* The direct route has been returned with the availability flag set.
C2_Witness ==
    /\ PathDone /\ AllAir /\ call.start = <<0, 2, 0>> /\ call.end = <<6, 2, 0>>
    /\ call.acceptIncomplete /\ result.available
    /\ Len(result.path) = 4

\* No chunk covers the goal or any of its six neighbours.
GoalIsolated ==
    /\ ~Readable(call.endPos)
    /\ \A n \in Neighbours(call.endPos) : ~Readable(n)

C4_FlagMeansArrival ==
    (PathReturned /\ call.acceptIncomplete) =>
        (result.available <=>
            /\ BlockOf(Last(result.path)) = call.endPos
            /\ Covering(chunks, call.endPos) # {})

\* C4 amended: with acceptIncomplete the flag returned with a path is true
\* exactly when the terminal node's block could be read; when no threshold
\* is given that is exactly when the terminal node is the goal and its block
\* could be read.
C4_FlagMeansAvailable ==
    (PathReturned /\ call.acceptIncomplete) =>
        /\ result.available <=> Readable(BlockOf(Last(result.path)))
        /\ call.threshold = None =>
              (result.available <=>
                  /\ BlockOf(Last(result.path)) = call.endPos
                  /\ Readable(call.endPos))

\* A search stopped by the threshold at a loaded node that is not the goal,
\* with the flag true.
C4_Witness ==
    /\ PathReturned /\ call.acceptIncomplete /\ call.threshold # None
    /\ result.available
    /\ BlockOf(Last(result.path)) # call.endPos

\* C10: whatever the flags and whatever calls came before, findPath raises,
\* and neither searches nor returns, when the block at start is not in the
\* walkable set.
C10_StartMustBeWalkable ==
    (PathCall /\ Read(call.start) \notin WalkableAtStartup) =>
        /\ pc = "done"
        /\ result.kind \in {"AssertionError", "BlockNotLoadedError"}

\* The outcome of the goal check for the running call: the blocks read at end
\* and one above it.
AtGoal == Read(call.end)

AboveGoal == Read(<<call.end[1], call.end[2] + FromInt(1), call.end[3]>>)

\* The call failed in its precondition checks, before any search step.
FailedAtOnce ==
    /\ pc = "done"
    /\ result.kind \in {"AssertionError", "BlockNotLoadedError"}
    /\ visited = {} /\ pq = <<>> /\ backTrack = NoBackTrack

\* The blocks the running call may walk through by its parameters: the
\* walkable blocks, and the breakable ones when destructive is set.
Traversable == WalkableAfter(WalkableAtStartup, call.destructive)

\* C11: if the goal block is loaded and it, or the loaded block above it, is
\* not walkable (nor, in a destructive call, breakable), findPath fails
\* before any search step whatever acceptIncomplete is; if the goal or the
\* block above it is unloaded the call fails when acceptIncomplete is unset,
\* and the goal check is skipped, the search proceeding for a walkable
\* start, when it is set.
C11_GoalPrecondition ==
    PathCall =>
        /\ (AtGoal # BlockNotLoadedError /\
               (\/ AtGoal \notin Traversable
                \/ AboveGoal \notin Traversable \cup {BlockNotLoadedError}))
              => FailedAtOnce
        /\ ((AtGoal = BlockNotLoadedError \/ AboveGoal = BlockNotLoadedError)
               /\ ~call.acceptIncomplete)
              => FailedAtOnce
        /\ (/\ AtGoal = BlockNotLoadedError \/
                  (AtGoal \in Traversable /\ AboveGoal = BlockNotLoadedError)
            /\ call.acceptIncomplete
            /\ Read(call.start) \in WalkableAtStartup)
              => ~FailedAtOnce

\* C12: findPath never changes the block classification table: the walkable
\* set always equals its startup value, and a path returned by a call with
\* destructive unset holds no block that is breakable and not walkable.
C12_TableReadOnly ==
    /\ BLOCKS_WALKABLE = WalkableAtStartup
    /\ (PathReturned /\ ~call.destructive) =>
          \A i \in DOMAIN result.path :
              Read(AsPosition(BlockOf(result.path[i])))
                  \notin BLOCKS_BREAKABLE \ WalkableAtStartup

(***************************************************************************)
(* SpecDetour: findPath, called again and again, in flat worlds one block  *)
(* high: a floor of air and stone at y = 1, air above it at y = 2 and a    *)
(* bedrock lid at y = 3, so that every route stays on the floor.           *)
(***************************************************************************)
DetourLenX == 3

DetourLenZ == 2

MaxStones == 2

\* The lid of a flat world of width w.
Lid(w) == {<<x, 3, z>> : x \in 0 .. DetourLenX - 1, z \in 0 .. w - 1}

\* The floor cells of a flat world of width w, the start's cell excepted.
FloorCells(w) ==
    {<<x, 1, z>> : x \in 0 .. DetourLenX - 1, z \in 0 .. w - 1} \ {<<0, 1, 0>>}

\* The flat world of width w whose floor holds stone at the cells S.
FlatWorld(w, S) ==
    AddChunkTo(NoChunks,
               MkChunk(<<0, 0, 0>>, DetourLenX, 4, w, BLOCK_AIR,
                       [l \in Lid(w) \cup S |->
                           IF l \in S THEN BLOCK_STONE ELSE BLOCK_BEDROCK]))

DetourWorlds ==
    UNION { { FlatWorld(w, S) :
                S \in {T \in SUBSET FloorCells(w) : Cardinality(T) <= MaxStones} } :
            w \in 1 .. DetourLenZ }

\* start (half units): block (0,1,0).
DetourStarts == { <<0, 2, 0>> }

\* end (half units): the far end of the first lane and of the last one.
DetourEnds == { <<2 * (DetourLenX - 1), 2, 0>>,
                <<2 * (DetourLenX - 1), 2, 2 * (DetourLenZ - 1)>> }

\* blockBreakPenalty (half units): none, 0.5, 1 and 2 blocks.
DetourPenalties == {None, 1, 2, 4}

InitDetour ==
    /\ chunks \in DetourWorlds
    /\ scan \in Orders(DOMAIN chunks)
    /\ BLOCKS_WALKABLE = WalkableAtStartup
    /\ op = NoOp
    /\ SearchIdle

NextDetour ==
    \/ \E start \in DetourStarts, end \in DetourEnds, acceptIncomplete \in BOOLEAN,
          destructive \in BOOLEAN, blockBreakPenalty \in DetourPenalties :
             FindPathBegin(start, end, acceptIncomplete, None, destructive,
                           blockBreakPenalty, NoClient)
    \/ FindPathStep
    \/ FindPathTimeout
    \/ FindPathReturn
    \/ CallReturns

SpecDetour == InitDetour /\ [][NextDetour]_vars

(***************************************************************************)
(* Claims about the destructive mode.                                      *)
(***************************************************************************)
\* The longest route counted.
MaxRoute == 6

BlockAt(p) == Read(AsPosition(p))

\* p is a block a candidate may be by the expansion rules of the spec, the
\* breakable blocks counted in: it is walkable or breakable, with walkable
\* or unloaded headroom and no fence below.
Enterable(p) ==
    /\ BlockAt(p) \in WalkableAtStartup \cup BLOCKS_BREAKABLE
    /\ BlockAt(Add(p, <<0, 1, 0>>)) \in WalkableAtStartup \cup {BlockNotLoadedError}
    /\ BlockAt(Add(p, <<0, -1, 0>>)) # BLOCK_FENCE

\* 1 for a block that is breakable and not walkable, 0 otherwise.
Breaks(p) == IF BlockAt(p) \in WalkableAtStartup THEN 0 ELSE 1

\* The pairs <<p, k>> such that a route of exactly n steps leads from the
\* start to p crossing k breakable blocks.
RECURSIVE RoutesOfLen(_)
RoutesOfLen(n) ==
    IF n = 0 THEN {<<call.startNode.pos, 0>>}
    ELSE {<<p, k>> \in UNION {{<<m, r[2] + Breaks(m)>> : m \in Neighbours(r[1])} :
                                r \in RoutesOfLen(n - 1)} :
             Enterable(p) /\ k <= MaxStones}

\* Some route of n steps leads to the goal crossing k breakable blocks.
RouteTo(n, k) == <<call.endPos, k>> \in RoutesOfLen(n)

\* The shortest routes to the goal have n steps, and among them are an
\* all-walkable one and one crossing exactly one breakable block.
TwoShortest(n) ==
    /\ RouteTo(n, 0) /\ RouteTo(n, 1)
    /\ \A m \in 0 .. (n - 1) : \A k \in 0 .. MaxStones : ~RouteTo(m, k)

\* No route to the goal is all-walkable; some route crosses one breakable
\* block.
OnlyByBreaking ==
    /\ \A n \in 0 .. MaxRoute : ~RouteTo(n, 0)
    /\ \E n \in 1 .. MaxRoute : RouteTo(n, 1)

\* The path returned is a route from the start to the goal.
ReturnsRoute ==
    /\ PathReturned
    /\ result.path[1] = Waypoint(call.startNode.pos)
    /\ Last(result.path) = Waypoint(call.endPos)
    /\ \A i \in 1 .. (Len(result.path) - 1) : OneStep(result.path[i], result.path[i + 1])

\* How many breakable blocks the path returned crosses.
Crossed == Cardinality({i \in DOMAIN result.path : Breaks(BlockOf(result.path[i])) = 1})

\* C13: a call with destructive set and a positive blockBreakPenalty returns
\* an all-walkable route when such a route and one of the same length
\* crossing exactly one breakable block are the shortest that lead to the
\* goal; when every route crosses a breakable block the call returns such a
\* route if destructive is set and "no path" if it is unset.
C13_PrefersWalkable ==
    (PathDone /\ result.kind = "return" /\ ~call.acceptIncomplete) =>
        /\ (/\ call.destructive /\ call.blockBreakPenalty > 0
            /\ \E n \in 1 .. MaxRoute : TwoShortest(n))
              => (ReturnsRoute /\ Crossed = 0)
        /\ OnlyByBreaking
              => IF call.destructive THEN ReturnsRoute /\ Crossed >= 1
                 ELSE result.path = <<>>

(***************************************************************************)
(* SpecRepeat: a caller that makes findPath calls one after another and    *)
(* keeps the parameters and the outcome of the previous one.  Calls with   *)
(* new parameters follow only after the caller has dropped what it kept.   *)
(***************************************************************************)
\* The parameters of a findPath call.
Parameters(c) ==
    <<c.start, c.end, c.acceptIncomplete, c.threshold, c.destructive,
      c.blockBreakPenalty, c.forClient>>

\* findPath is called anew, or again exactly as the last time.
RepeatBegin(start, end, acceptIncomplete, threshold, destructive, blockBreakPenalty, forClient) ==
    /\ IF last = NoLast THEN TRUE
       ELSE Parameters(last.call) = <<start, end, acceptIncomplete, threshold,
                                      destructive, blockBreakPenalty, forClient>>
    /\ FindPathBegin(start, end, acceptIncomplete, threshold, destructive,
                     blockBreakPenalty, forClient)

\* The finished call hands its outcome to the caller, which keeps it.
CallReturnsKept ==
    /\ Unwind
    /\ last' = [call |-> call, result |-> result]
    /\ UNCHANGED <<chunks, scan, BLOCKS_WALKABLE, op>>

\* The caller drops what it kept.
Forget ==
    /\ pc = "idle"
    /\ last # NoLast
    /\ last' = NoLast
    /\ UNCHANGED <<chunks, scan, BLOCKS_WALKABLE, op, call, pc, visited, q, pq,
                   backTrack, found, result>>

\* start (half units): block (0,1,0).
RepeatStarts == { <<0, 2, 0>> }

\* end (half units): block (3,1,0) and the block past the slab's far side.
RepeatEnds == { <<6, 2, 0>>, <<2 * (LenX + 1), 4, 0>> }

NextRepeat ==
    \/ \E start \in RepeatStarts, end \in RepeatEnds, acceptIncomplete \in BOOLEAN,
          threshold \in PathThresholds, destructive \in BOOLEAN,
          pen \in PathPenalties :
             RepeatBegin(start, end, acceptIncomplete, threshold, destructive,
                         pen[1], pen[2])
    \/ FindPathStep
    \/ FindPathTimeout
    \/ FindPathReturn
    \/ CallReturnsKept
    \/ Forget

SpecRepeat == InitPath /\ [][NextRepeat]_vars

\* The previous call and the finished one had the same parameters and
\* neither ran out of time.
Repeated ==
    /\ PathDone
    /\ last # NoLast
    /\ Parameters(last.call) = Parameters(call)
    /\ result.kind # "TimeoutError"
    /\ last.result.kind # "TimeoutError"

\* C14: of two successive findPath calls with the same parameters on a world
\* nothing has changed, the second ends as the first did: the same waypoint
\* sequence and the same availability flag, or the same failure.
C14_RepeatSame == Repeated => result = last.result

\* A destructive call has been repeated, and both times returned a path
\* that crosses a breakable block.
C14_Witness ==
    /\ Repeated
    /\ call.destructive
    /\ PathReturned
    /\ last.result.path = result.path
    /\ \E i \in DOMAIN result.path :
          BlockAt(BlockOf(result.path[i])) \in BLOCKS_BREAKABLE

(***************************************************************************)
(* Claims about the expansion of findPath.                                 *)
(***************************************************************************)
\* C16: every waypoint of a returned path other than the first is a position
\* that passed the expansion rules: its block, if loaded, is in the
\* traversal set (walkable, or breakable in a destructive call); so is the
\* block one above it, if loaded; the block below it is no fence; and in a
\* destructive call the block two above it is no fall hazard.
C16_WaypointsPassRules ==
    PathReturned =>
        \A i \in 2 .. Len(result.path) :
            LET p == BlockOf(result.path[i])
            IN  /\ BlockAt(p) \in Traversable \cup {BlockNotLoadedError}
                /\ BlockAt(Add(p, <<0, 1, 0>>)) \in Traversable \cup {BlockNotLoadedError}
                /\ BlockAt(Add(p, <<0, -1, 0>>)) # BLOCK_FENCE
                /\ call.destructive => BlockAt(Add(p, <<0, 2, 0>>)) \notin FallHazards

\* The positions of the nodes in the heap.
Frontier == {pq[i].pos : i \in DOMAIN pq}

\* Following the back-pointers from p leads to the start without coming
\* to a position of seen or to p again.
RECURSIVE LeadsToStart(_, _)
LeadsToStart(p, seen) ==
    IF p = call.startNode.pos THEN TRUE
    ELSE IF p \in seen \/ p \notin DOMAIN backTrack THEN FALSE
    ELSE LeadsToStart(backTrack[p].pos, seen \cup {p})

\* The search of the running call has begun.
InSearch == PathCall /\ visited # {}

\* What C19 says of a state of the main loop.
C19_Linked ==
    InSearch =>
        /\ \A i, j \in DOMAIN pq : pq[i].pos = pq[j].pos => i = j
        /\ Frontier \subseteq visited
        /\ DOMAIN backTrack = visited \ {call.startNode.pos}
        /\ \A p \in DOMAIN backTrack :
              /\ backTrack[p].pos \in Neighbours(p)
              /\ backTrack[p].pos \in visited \ Frontier
        /\ \A p \in visited : LeadsToStart(p, {})

\* What C19 says of a step: a position that comes into the heap was not
\* visited, so not pushed, before.
C19_PushedOnce ==
    \A p \in Frontier' : p \in Frontier \/ p \notin visited

\* C19: at every step of findPath's loop each position is pushed onto the
\* heap at most once, every visited position but the start has exactly one
\* back-pointer, to a 6-connected neighbour popped earlier, and following the
\* back-pointers from a visited position reaches the start without
\* repeating a position.
C19_BackPointers == [](C19_Linked) /\ [][C19_PushedOnce]_vars

\* The loop has visited a position three back-pointers from the start.
C19_Witness ==
    /\ InSearch /\ pc = "loop"
    /\ \E p \in DOMAIN backTrack :
          /\ backTrack[p].pos \in DOMAIN backTrack
          /\ backTrack[backTrack[p].pos].pos \in DOMAIN backTrack

====
